---- MODULE Spec2Model ----
(***************************************************************************)
(* Model of the markdown widget of the DeepSeek API client                 *)
(* (src/rev/0.7.3dev/dev/markdown_widget.py, class MarkdownText).          *)
(*                                                                         *)
(* Text is a sequence of one-character strings.  Offsets are Python's:     *)
(* 0-based, ranges are half-open [start, end).                             *)
(***************************************************************************)
EXTENDS Integers, Sequences, FiniteSets, TLC

VARIABLES
    line,              \* SpecInline: the line handed to the inline formatter
    formatted,         \* SpecInline: what the formatter returned for it
    raw_content,       \* MarkdownText.raw_content
    markdown_enabled,  \* MarkdownText.markdown_enabled
    sink,              \* the Tk text widget: [text, tags]
    blocks,            \* history: the blocks the last markdown render emitted
    last_op,           \* history: the operation called last
    last_args,         \* history: the arguments of that call
    again,             \* history: last_op was called twice in a row
    edits,             \* history: number of calls that changed the buffer
    exported,          \* history: what export_as_html returned last
    gui_markdown_enabled,  \* DeepSeekGUI.markdown_enabled
    streaming_stopped, \* DeepSeekGUI.streaming_stopped
    should_stop,       \* StreamingHandler.should_stop
    stop_enabled,      \* the stop button is enabled
    workers,           \* the worker threads started, one per request
    after_queue,       \* the callbacks handed to master.after(0, ...), oldest first
    origin,            \* history: per character of raw_content, the request
                       \* whose chunk it came with, 0 for any other text
    shown_chunks,      \* history: the chunks whose callback has run since the
                       \* output was cleared last
    session,           \* ChatHandler.current_session: a ChatSession
    is_streaming,      \* ChatHandler.is_streaming
    send_enabled,      \* the send button is enabled
    user_input         \* the text in the input box

vars ==
    <<line, formatted, raw_content, markdown_enabled, sink, blocks, last_op,
      last_args, again, edits, exported, gui_markdown_enabled, streaming_stopped,
      should_stop, stop_enabled, workers, after_queue, origin, shown_chunks,
      session, is_streaming, send_enabled, user_input>>

widget_vars ==
    <<raw_content, markdown_enabled, sink, blocks, last_op, last_args, again, edits>>

inline_vars == <<line, formatted>>

export_vars == <<exported>>

chat_vars == <<session, is_streaming, send_enabled, user_input>>

host_vars ==
    <<gui_markdown_enabled, streaming_stopped, should_stop, stop_enabled,
      workers, after_queue, origin, shown_chunks>>

----------------------------------------------------------------------------
(* Strings *)

NL == "\n"

\* The backquote character (U+0060), which the TLA+ lexer does not accept in
\* a string, the bullet (U+2022) and the box-drawing rule glyph (U+2500).
Backtick == "BQ"

Bullet == "BULLET"

RuleGlyph == "RULE"

Whitespace == {" ", "\t"}

Digits == {"0", "1", "2", "3", "4", "5", "6", "7", "8", "9"}

\* s[a:b]
Slice(s, a, b) == SubSeq(s, a + 1, b)

\* s[i]
CharAt(s, i) == s[i + 1]

\* c * n
Repeat(c, n) == IF n <= 0 THEN << >> ELSE [k \in 1..n |-> c]

\* s.startswith(p)
StartsWith(s, p) == Len(s) >= Len(p) /\ SubSeq(s, 1, Len(p)) = p

\* min(S), max(S)
Least(S) == CHOOSE x \in S : \A y \in S : x <= y

Greatest(S) == CHOOSE x \in S : \A y \in S : y <= x

\* the first index k >= i with s[k] in cs, Len(s) when there is none
FirstIn(s, i, cs) == Least({ k \in i..(Len(s) - 1) : CharAt(s, k) \in cs } \cup {Len(s)})

\* the first index k >= i with s[k] not in cs, Len(s) when there is none
FirstNotIn(s, i, cs) == Least({ k \in i..(Len(s) - 1) : CharAt(s, k) \notin cs } \cup {Len(s)})

\* the last index k < i with s[k] not in cs, plus one; 0 when there is none
LastNotIn(s, i, cs) == Greatest({ k \in 1..i : CharAt(s, k - 1) \notin cs } \cup {0})

\* s.lstrip(cs), s.strip(cs)
LStrip(s, cs) == Slice(s, FirstNotIn(s, 0, cs), Len(s))

Strip(s, cs) ==
    LET a == FirstNotIn(s, 0, cs)
        b == LastNotIn(s, Len(s), cs)
    IN  IF a >= b THEN << >> ELSE Slice(s, a, b)

\* text.split('\n')
RECURSIVE Split(_)
Split(s) ==
    LET k == FirstIn(s, 0, {NL})
    IN  IF k >= Len(s) THEN <<s>>
        ELSE <<Slice(s, 0, k)>> \o Split(Slice(s, k + 1, Len(s)))

\* '\n'.join(ls)
RECURSIVE Join(_)
Join(ls) ==
    IF Len(ls) = 0 THEN << >>
    ELSE IF Len(ls) = 1 THEN ls[1]
    ELSE ls[1] \o <<NL>> \o Join(Tail(ls))

----------------------------------------------------------------------------
(* The regular expressions of _process_inline_formatting.  A match is      *)
(* [start, end, content]: match.span() and match.group(1).                 *)

NoMatch == [start |-> -1, end |-> -1, content |-> << >>]

\* the faulty variant asks for no closing delimiter: the rest of the text
\* after the opening delimiter is the content
DelimitedAt_unclosed(s, i, d, n) ==
    IF i + n > Len(s) \/ Slice(s, i, i + n) # Repeat(d, n) THEN NoMatch
    ELSE [start |-> i, end |-> Len(s), content |-> Slice(s, i + n, Len(s))]

\* d{n}([^d]+)d{n} at position i.  The content cannot hold the delimiter, so
\* the greedy and the lazy quantifier match the same text: the content runs
\* to the first delimiter character after the opening delimiter.
DelimitedAt(s, i, d, n) ==
    IF i + n > Len(s) \/ Slice(s, i, i + n) # Repeat(d, n) THEN NoMatch
    ELSE LET k == FirstIn(s, i + n, {d})
         IN  IF k > i + n /\ k + n <= Len(s) /\ Slice(s, k, k + n) = Repeat(d, n)
             THEN [start |-> i, end |-> k + n, content |-> Slice(s, i + n, k)]
             ELSE NoMatch

\* \[([^\]]+?)\]\([^\)]+?\) at position i
LinkAt(s, i) ==
    IF i >= Len(s) \/ CharAt(s, i) # "[" THEN NoMatch
    ELSE LET k == FirstIn(s, i + 1, {"]"})
         IN  IF k > i + 1 /\ k + 1 < Len(s) /\ CharAt(s, k + 1) = "("
             THEN LET m == FirstIn(s, k + 2, {")"})
                  IN  IF m > k + 2 /\ m < Len(s)
                      THEN [start |-> i, end |-> m + 1, content |-> Slice(s, i + 1, k)]
                      ELSE NoMatch
             ELSE NoMatch

code_pattern == "code"
strikethrough_pattern == "strikethrough"
bold_italic_pattern == "bold_italic"
bold_pattern == "bold"
italic_pattern == "italic"
link_pattern == "link"

MatchAt(pattern, s, i) ==
    CASE pattern = code_pattern -> DelimitedAt(s, i, Backtick, 1)
      [] pattern = strikethrough_pattern -> DelimitedAt(s, i, "~", 2)
      [] pattern = bold_italic_pattern -> DelimitedAt(s, i, "*", 3)
      [] pattern = bold_pattern -> DelimitedAt(s, i, "*", 2)
      [] pattern = italic_pattern -> DelimitedAt(s, i, "*", 1)
      [] pattern = link_pattern -> LinkAt(s, i)

\* list(re.finditer(pattern, s)): leftmost matches, left to right, each search
\* resuming at the end of the match before
RECURSIVE FindFrom(_, _, _)

\* the search from i finds the match at the least of the positions a match
\* starts at
FoundAt(pattern, s, m) == <<m>> \o FindFrom(pattern, s, m.end)

FindNext(pattern, s, starts) ==
    IF starts = {} THEN << >> ELSE FoundAt(pattern, s, MatchAt(pattern, s, Least(starts)))

FindFrom(pattern, s, i) ==
    FindNext(pattern, s, { a \in i..(Len(s) - 1) : MatchAt(pattern, s, a) # NoMatch })

finditer(pattern, s) == FindFrom(pattern, s, 0)

----------------------------------------------------------------------------
(* MarkdownText._position_in_ranges *)

position_in_ranges(start, end, ranges, offset) ==
    LET adjusted_start == start + offset
        adjusted_end == end + offset
    IN  \E r \in 1..Len(ranges) :
            adjusted_start < ranges[r][2] /\ adjusted_end > ranges[r][1]

(* MarkdownText._process_inline_formatting.  The state threaded through    *)
(* the passes is [processed_text, formats, offset], and the history        *)
(* contents: match.group(1) of the match behind each entry of formats.     *)

\* pass 1, the loop over reversed(code_matches), from match k down to 1
RECURSIVE CodeLoop(_, _, _)
CodeLoop(st, matches, k) ==
    IF k = 0 THEN st
    ELSE LET m == matches[k]
             content == m.content
         IN  CodeLoop(
                 [processed_text |-> Slice(st.processed_text, 0, m.start) \o content
                                     \o Slice(st.processed_text, m.end, Len(st.processed_text)),
                  formats |-> Append(st.formats,
                                     [start |-> m.start - st.offset,
                                      end |-> m.start - st.offset + Len(content),
                                      type |-> "inline_code"]),
                  offset |-> st.offset + 2,
                  contents |-> Append(st.contents, content)],
                 matches, k - 1)

\* the characters a match of a later pass removes
Removed(pattern, m) ==
    CASE pattern = strikethrough_pattern -> 4
      [] pattern = bold_italic_pattern -> 6
      [] pattern = bold_pattern -> 4
      [] pattern = italic_pattern -> 2
      [] pattern = link_pattern -> (m.end - m.start) - Len(m.content)

\* passes 2 to 6, the loop over reversed(matches), from match k down to 1
RECURSIVE FormatLoop(_, _, _, _, _)
FormatLoop(st, pattern, matches, k, code_ranges) ==
    IF k = 0 THEN st
    ELSE LET m == matches[k]
             content == m.content
         IN  IF ~position_in_ranges(m.start, m.end, code_ranges, st.offset)
             THEN FormatLoop(
                      [processed_text |-> Slice(st.processed_text, 0, m.start) \o content
                                          \o Slice(st.processed_text, m.end, Len(st.processed_text)),
                       formats |-> Append(st.formats,
                                          [start |-> m.start,
                                           end |-> m.start + Len(content),
                                           type |-> pattern]),
                       offset |-> st.offset + Removed(pattern, m),
                       contents |-> Append(st.contents, content)],
                      pattern, matches, k - 1, code_ranges)
             ELSE FormatLoop(st, pattern, matches, k - 1, code_ranges)

\* for match in reversed(matches), over all of them
FormatMatches(st, pattern, matches, code_ranges) ==
    FormatLoop(st, pattern, matches, Len(matches), code_ranges)

FormatPass(st, pattern, code_ranges) ==
    FormatMatches(st, pattern, finditer(pattern, st.processed_text), code_ranges)

\* the order of passes 2 to 6; the faulty variant runs bold before bold-italic
pass_order_bold_first ==
    <<strikethrough_pattern, bold_pattern, bold_italic_pattern, italic_pattern,
      link_pattern>>

pass_order ==
    <<strikethrough_pattern, bold_italic_pattern, bold_pattern, italic_pattern,
      link_pattern>>

RECURSIVE RunPasses(_, _, _, _)
RunPasses(st, order, k, code_ranges) ==
    IF k > Len(order) THEN st
    ELSE RunPasses(FormatPass(st, order[k], code_ranges), order, k + 1, code_ranges)

\* code_ranges.append((match.start(), match.end())) for each code match
code_ranges_of(code_matches) ==
    [r \in 1..Len(code_matches) |-> <<code_matches[r].start, code_matches[r].end>>]

\* return processed_text, formats
returned(st) ==
    [text |-> st.processed_text, formats |-> st.formats, contents |-> st.contents]

\* the six passes, given the matches of the code pattern in the text
inline_passes(text, code_matches) ==
    returned(RunPasses(CodeLoop([processed_text |-> text, formats |-> << >>,
                                 offset |-> 0, contents |-> << >>],
                                code_matches, Len(code_matches)),
                       pass_order, 1, code_ranges_of(code_matches)))

process_inline_formatting(text) == inline_passes(text, finditer(code_pattern, text))

----------------------------------------------------------------------------
(* The display sink: the Tk text widget the class extends.  Its state is   *)
(* the text it holds and the tag ranges added to it, as [tag, start, end]   *)
(* with character offsets from index 1.0.                                   *)

EmptySink == [text |-> << >>, tags |-> {}]

\* self.delete(1.0, tk.END); the faulty variant leaves the sink as it is
delete_all_kept(s) == s

delete_all(s) == EmptySink

\* self.insert(pos, text): an index past the end means the end
insert(s, pos, text) ==
    LET at == IF pos > Len(s.text) THEN Len(s.text) ELSE pos
    IN  [s EXCEPT !.text = Slice(s.text, 0, at) \o text \o Slice(s.text, at, Len(s.text))]

\* self.tag_add(tag, start, end)
tag_add(s, tag, start, end) ==
    [s EXCEPT !.tags = @ \cup {[tag |-> tag, start |-> start, end |-> end]}]

----------------------------------------------------------------------------
(* MarkdownText._render_markdown_text: the line loop.  Every iteration is  *)
(* recorded as a block [kind, first, next, line_start, text, tag, formats]: *)
(* the branch taken, the lines lines[first:next] it consumed, the position  *)
(* it inserted at, the text it inserted (empty when it inserted nothing),   *)
(* the tag put on that text and the inline formats applied to it.           *)

Fence == <<Backtick, Backtick, Backtick>>

\* line.strip().startswith(fence); the faulty variant tests equality
is_fence_exact(l) == Strip(l, Whitespace) = Fence

is_fence(l) == StartsWith(Strip(l, Whitespace), Fence)

is_quote(l) == StartsWith(Strip(l, Whitespace), <<">">>)

\* the for loop counting the '#' characters at the start of the line
hash_count(l) == FirstNotIn(l, 0, {"#"})

\* line.strip('#').strip()
title_text(l) == Strip(Strip(l, {"#"}), Whitespace)

\* lines[i].strip().lstrip('>').strip()
quote_text(l) == Strip(LStrip(Strip(l, Whitespace), {">"}), Whitespace)

\* the end of the match of ^\s*[-*+]\s+ in the line, -1 without a match
unordered_end(l) ==
    LET a == FirstNotIn(l, 0, Whitespace)
    IN  IF a + 1 < Len(l) /\ CharAt(l, a) \in {"-", "*", "+"}
           /\ CharAt(l, a + 1) \in Whitespace
        THEN FirstNotIn(l, a + 1, Whitespace)
        ELSE -1

\* the end of the match of ^\s*\d+\.\s+ in the line, -1 without a match
ordered_end(l) ==
    LET a == FirstNotIn(l, 0, Whitespace)
        d == FirstNotIn(l, a, Digits)
    IN  IF d > a /\ d + 1 < Len(l) /\ CharAt(l, d) = "."
           /\ CharAt(l, d + 1) \in Whitespace
        THEN FirstNotIn(l, d + 1, Whitespace)
        ELSE -1

is_list_item(l) == unordered_end(l) >= 0 \/ ordered_end(l) >= 0

\* the two re.sub calls of the list branch
clean_line(l) ==
    LET a == FirstNotIn(l, 0, Whitespace)
        first == IF unordered_end(l) >= 0
                 THEN Slice(l, 0, a) \o <<Bullet, " ">> \o Slice(l, unordered_end(l), Len(l))
                 ELSE l
        b == FirstNotIn(first, 0, Whitespace)
    IN  IF ordered_end(first) >= 0
        THEN Slice(first, 0, b) \o first
        ELSE first

\* re.match(r'^\s*[-*_]{3,}\s*$', line); the faulty variant knows dashes only
is_horizontal_rule_dashes(l) ==
    LET a == FirstNotIn(l, 0, Whitespace)
        b == FirstNotIn(l, a, {"-"})
    IN  b - a >= 3 /\ FirstNotIn(l, b, Whitespace) = Len(l)

is_horizontal_rule(l) ==
    LET a == FirstNotIn(l, 0, Whitespace)
        b == FirstNotIn(l, a, {"-", "*", "_"})
    IN  b - a >= 3 /\ FirstNotIn(l, b, Whitespace) = Len(l)

RuleWidth == 50

HeadingTags == <<"h0", "h1", "h2", "h3", "h4">>

\* the faulty variants: one closes no fence before the end of the buffer,
\* one closes every fence at the line after the opening one
FenceClose_at_end(lines, i) == Len(lines)

FenceClose_at_once(lines, i) == i

\* the first index j >= i of a line that closes the fence, Len(lines) if none
RECURSIVE FenceClose(_, _)
FenceClose(lines, i) ==
    IF i >= Len(lines) THEN Len(lines)
    ELSE IF is_fence(CharAt(lines, i)) THEN i
    ELSE FenceClose(lines, i + 1)

\* the faulty variant ends every quote after its first line
QuoteEnd_one_line(lines, i) == i + 1

\* the first index j >= i of a line that does not continue the quote
RECURSIVE QuoteEnd(_, _)
QuoteEnd(lines, i) ==
    IF i >= Len(lines) THEN Len(lines)
    ELSE IF ~is_quote(CharAt(lines, i)) THEN i
    ELSE QuoteEnd(lines, i + 1)

Block(kind, first, next, line_start, text, tag, formats) ==
    [kind |-> kind, first |-> first, next |-> next, line_start |-> line_start,
     text |-> text, tag |-> tag, formats |-> formats]

RECURSIVE RenderLoop(_, _, _)

\* the last branch: the line is a paragraph, formatted inline
Paragraph(lines, i, current_pos, processed_line) ==
    LET display_text == processed_line.text \o <<NL>>
    IN  <<Block("paragraph", i, i + 1, current_pos, display_text, "none",
                processed_line.formats)>>
        \o RenderLoop(lines, i + 1, current_pos + Len(display_text))

RenderLoop(lines, i, current_pos) ==
    IF i >= Len(lines) THEN << >>
    ELSE
    LET l == CharAt(lines, i)
    IN  IF is_fence(l) THEN
            LET j == FenceClose(lines, i + 1)
                code_lines == Slice(lines, i + 1, j)
                code_text == IF Len(code_lines) > 0 THEN Join(code_lines) \o <<NL>> ELSE << >>
            IN  <<Block("code_block", i, j + 1, current_pos, code_text, "code_block", << >>)>>
                \o RenderLoop(lines, j + 1, current_pos + Len(code_text))
        ELSE IF StartsWith(Strip(l, Whitespace), <<"#">>) /\ hash_count(l) <= 4
                /\ title_text(l) # << >> THEN
            LET display_text == title_text(l) \o <<NL>>
            IN  <<Block("heading", i, i + 1, current_pos, display_text,
                        HeadingTags[hash_count(l) + 1], << >>)>>
                \o RenderLoop(lines, i + 1, current_pos + Len(display_text))
        ELSE IF is_quote(l) THEN
            LET j == QuoteEnd(lines, i)
                quote_lines == [k \in 1..(j - i) |-> quote_text(CharAt(lines, i + k - 1))]
                quote == Join(quote_lines) \o <<NL>>
            IN  <<Block("blockquote", i, j, current_pos, quote, "blockquote", << >>)>>
                \o RenderLoop(lines, j, current_pos + Len(quote))
        ELSE IF is_list_item(l) THEN
            LET display_text == clean_line(l) \o <<NL>>
            IN  <<Block("list_item", i, i + 1, current_pos, display_text, "list_item", << >>)>>
                \o RenderLoop(lines, i + 1, current_pos + Len(display_text))
        ELSE IF is_horizontal_rule(l) THEN
            LET display_text == Repeat(RuleGlyph, RuleWidth) \o <<NL>>
            IN  <<Block("horizontal_rule", i, i + 1, current_pos, display_text, "normal", << >>)>>
                \o RenderLoop(lines, i + 1, current_pos + Len(display_text))
        ELSE Paragraph(lines, i, current_pos, process_inline_formatting(l))

\* the blocks of a buffer: nothing for the empty buffer
render_markdown_text(text) ==
    IF text = << >> THEN << >> ELSE RenderLoop(Split(text), 0, 0)

\* MarkdownText._apply_format_tags
RECURSIVE apply_format_tags(_, _, _, _)
apply_format_tags(s, line_start_pos, formats, k) ==
    IF k > Len(formats) THEN s
    ELSE apply_format_tags(
             tag_add(s, formats[k].type, line_start_pos + formats[k].start,
                     line_start_pos + formats[k].end),
             line_start_pos, formats, k + 1)

\* what the iterations do to the sink: insert the text, then tag it
RECURSIVE Emit(_, _, _)
Emit(s, bs, k) ==
    IF k > Len(bs) THEN s
    ELSE LET b == bs[k]
             inserted == insert(s, b.line_start, b.text)
         IN  Emit(
                 IF b.text = << >> THEN s
                 ELSE IF b.kind = "paragraph"
                 THEN apply_format_tags(inserted, b.line_start, b.formats, 1)
                 ELSE tag_add(inserted, b.tag, b.line_start, b.line_start + Len(b.text)),
                 bs, k + 1)

----------------------------------------------------------------------------
(* Inputs *)

\* the most pieces a line is made of
MaxPieces == 3

\* the most calls that change the buffer
MaxEdits == 2

NotBold == <<"*", "*", "n", "o", "t", " ", "b", "o", "l", "d", "*", "*">>

NotBoldCode == <<Backtick>> \o NotBold \o <<Backtick>>

\* what the lines handed to the inline formatter are made of
Pieces ==
    { <<"a">>, <<" ">>, <<"*">>, <<"*", "*">>, <<"*", "*", "*">>, <<"~", "~">>,
      <<Backtick>>, <<Backtick, "a", Backtick>>,
      <<"[", "a", "]", "(", "b", ")">>, <<"[">>,
      NotBoldCode,
      <<"*", "*", "*", "x", "*", "*", "*">> }

RECURSIVE Concat(_, _)
Concat(ps, k) == IF k > Len(ps) THEN << >> ELSE ps[k] \o Concat(ps, k + 1)

Lines == { Concat(ps, 1) : ps \in UNION { [1..n -> Pieces] : n \in 0..MaxPieces } }

\* "# Title\n\nSome **bold** and *italic* and (code).\n", code in backquotes
Example ==
    <<"#", " ", "T", "i", "t", "l", "e", NL, NL, "S", "o", "m", "e", " ",
      "*", "*", "b", "o", "l", "d", "*", "*", " ", "a", "n", "d", " ", "*",
      "i", "t", "a", "l", "i", "c", "*", " ", "a", "n", "d", " ", Backtick,
      "c", "o", "d", "e", Backtick, ".", NL>>

\* a closed fence with a language around lines of every block kind, and a
\* fence left open
FenceDoc ==
    <<Backtick, Backtick, Backtick, "p", "y", NL, "*", "*", "n", "o", "t",
      " ", "b", "o", "l", "d", "*", "*", NL, "#", " ", "n", "o", "t", " ",
      "a", " ", "h", "e", "a", "d", "i", "n", "g", NL, ">", " ", "q", NL,
      "-", " ", "x", NL, "-", "-", "-", NL, Backtick, Backtick, Backtick,
      NL>>

OpenFenceDoc ==
    <<Backtick, Backtick, Backtick, NL, "*", "*", "n", "o", "t", " ", "b",
      "o", "l", "d", "*", "*", NL>>

Docs == { Example, FenceDoc, OpenFenceDoc }

TooDeep == <<"#", "#", "#", "#", "#", " ", "T", "o", "o", " ", "D", "e", "e", "p">>

\* the texts appended
Chunks ==
    { Fence, <<"-", "-", "-">>, <<"*", "*", "*">>, TooDeep, <<" ">> \o TooDeep,
      <<">", " ", "q">>, <<"-", " ", "x">> }

\* the end argument of append_raw_text: the default and the empty string
Ends == { <<NL>>, << >> }

----------------------------------------------------------------------------
(* MarkdownText.export_as_html.  An HTML tag the substitutions write is one *)
(* element of the text: no pattern of a later substitution matches inside a *)
(* tag, and no tag holds a newline.  A match is [start, end, groups].       *)

NoSub == [start |-> -1, end |-> -1, groups |-> << >>]

AllSpace == Whitespace \cup {NL}

\* s holds p at position i
HasAt(s, i, p) == i >= 0 /\ i + Len(p) <= Len(s) /\ Slice(s, i, i + Len(p)) = p

\* the first position e >= a where s holds p, Len(s) + 1 when there is none
FirstAt(s, a, p) == Least({ e \in a..(Len(s) - Len(p)) : HasAt(s, e, p) } \cup {Len(s) + 1})

\* ^#{n}\s+(.+)$ with re.MULTILINE at position i: the hashes start a line,
\* \s+ runs over blanks and newlines and gives characters back until (.+)
\* finds a character that is not a newline; (.+) runs to the end of that line
HeadingAt(s, i, n) ==
    IF ~(i = 0 \/ CharAt(s, i - 1) = NL) \/ ~HasAt(s, i, Repeat("#", n)) THEN NoSub
    ELSE LET w0 == i + n
             w1 == FirstNotIn(s, w0, AllSpace)
             ps == { q \in (w0 + 1)..w1 : q < Len(s) /\ CharAt(s, q) # NL }
         IN  IF ps = {} THEN NoSub
             ELSE LET q == CHOOSE x \in ps : \A y \in ps : y <= x
                      eol == FirstIn(s, q, {NL})
                  IN  [start |-> i, end |-> eol, groups |-> <<Slice(s, q, eol)>>]

\* open(.+?)close at position i: the content is not empty, holds no newline
\* and ends at the first close that follows its first character
LazyEnd(s, e, close) ==
    LET stop == Least({ k \in e..Len(s) : k + Len(close) > Len(s) \/ CharAt(s, k - 1) = NL
                                            \/ HasAt(s, k, close) })
    IN  IF stop + Len(close) > Len(s) \/ CharAt(s, stop - 1) = NL THEN -1 ELSE stop

LazyAt(s, i, open, close) ==
    IF ~HasAt(s, i, open) \/ i + Len(open) >= Len(s) THEN NoSub
    ELSE LET a == i + Len(open)
             e == LazyEnd(s, a + 1, close)
         IN  IF e < 0 THEN NoSub
             ELSE [start |-> i, end |-> e + Len(close), groups |-> <<Slice(s, a, e)>>]

\* three backquotes, [\s\S]*?\n up to the first newline, ([\s\S]*?) up to the
\* first three backquotes after it
CodeBlockAt(s, i) ==
    IF ~HasAt(s, i, Fence) THEN NoSub
    ELSE LET n == FirstIn(s, i + 3, {NL})
             e == FirstAt(s, n + 1, Fence)
         IN  IF n >= Len(s) \/ e > Len(s) THEN NoSub
             ELSE [start |-> i, end |-> e + 3, groups |-> <<Slice(s, n + 1, e)>>]

\* \[(.+?)\]\((.+?)\) at position i: the label ends at the first "](" that
\* a target and a ")" follow on the same line
RECURSIVE HtmlLinkFrom(_, _, _)
HtmlLinkFrom(s, i, e) ==
    IF e + 2 > Len(s) \/ CharAt(s, e - 1) = NL THEN NoSub
    ELSE LET target == LazyAt(s, e, <<"]", "(">>, <<")">>)
         IN  IF target # NoSub
             THEN [start |-> i, end |-> target.end,
                   groups |-> <<Slice(s, i + 1, e), target.groups[1]>>]
             ELSE HtmlLinkFrom(s, i, e + 1)

HtmlLinkAt(s, i) ==
    IF ~HasAt(s, i, <<"[">>) \/ i + 1 >= Len(s) THEN NoSub
    ELSE HtmlLinkFrom(s, i, i + 2)

SubAt(pattern, s, i) ==
    CASE pattern = "h4" -> HeadingAt(s, i, 4)
      [] pattern = "h3" -> HeadingAt(s, i, 3)
      [] pattern = "h2" -> HeadingAt(s, i, 2)
      [] pattern = "h1" -> HeadingAt(s, i, 1)
      [] pattern = "strong_em" -> LazyAt(s, i, <<"*", "*", "*">>, <<"*", "*", "*">>)
      [] pattern = "strong" -> LazyAt(s, i, <<"*", "*">>, <<"*", "*">>)
      [] pattern = "em" -> LazyAt(s, i, <<"*">>, <<"*">>)
      [] pattern = "code" -> LazyAt(s, i, <<Backtick>>, <<Backtick>>)
      [] pattern = "pre" -> CodeBlockAt(s, i)
      [] pattern = "a" -> HtmlLinkAt(s, i)
      [] pattern = "del" -> LazyAt(s, i, <<"~", "~">>, <<"~", "~">>)

\* the replacement string of each substitution
Replacement(pattern, m) ==
    CASE pattern = "h4" -> <<"<h4>">> \o m.groups[1] \o <<"</h4>">>
      [] pattern = "h3" -> <<"<h3>">> \o m.groups[1] \o <<"</h3>">>
      [] pattern = "h2" -> <<"<h2>">> \o m.groups[1] \o <<"</h2>">>
      [] pattern = "h1" -> <<"<h1>">> \o m.groups[1] \o <<"</h1>">>
      [] pattern = "strong_em" -> <<"<strong>", "<em>">> \o m.groups[1] \o <<"</em>", "</strong>">>
      [] pattern = "strong" -> <<"<strong>">> \o m.groups[1] \o <<"</strong>">>
      [] pattern = "em" -> <<"<em>">> \o m.groups[1] \o <<"</em>">>
      [] pattern = "code" -> <<"<code>">> \o m.groups[1] \o <<"</code>">>
      [] pattern = "pre" -> <<"<pre>", "<code>">> \o m.groups[1] \o <<"</code>", "</pre>">>
      [] pattern = "a" -> <<"<a href=\"">> \o m.groups[2] \o <<"\">">> \o m.groups[1] \o <<"</a>">>
      [] pattern = "del" -> <<"<del>">> \o m.groups[1] \o <<"</del>">>

\* re.sub(pattern, replacement, s): leftmost matches, left to right; the
\* characters between two matches are copied
RECURSIVE SubFrom(_, _, _)
SubNext(pattern, s, i, starts) ==
    IF starts = {} THEN Slice(s, i, Len(s))
    ELSE LET a == Least(starts)
             m == SubAt(pattern, s, a)
         IN  Slice(s, i, a) \o Replacement(pattern, m) \o SubFrom(pattern, s, m.end)

SubFrom(pattern, s, i) ==
    SubNext(pattern, s, i, { a \in i..(Len(s) - 1) : SubAt(pattern, s, a) # NoSub })

sub(pattern, s) == SubFrom(pattern, s, 0)

\* the substitutions of export_as_html, in the order of the code
Substitutions ==
    <<"h4", "h3", "h2", "h1", "strong_em", "strong", "em", "code", "pre", "a", "del">>

RECURSIVE SubAll(_, _)
SubAll(s, k) == IF k = 0 THEN s ELSE sub(Substitutions[k], SubAll(s, k - 1))

\* html_content.split('\n\n')
RECURSIVE SplitBlank(_)
SplitBlank(s) ==
    LET k == FirstAt(s, 0, <<NL, NL>>)
    IN  IF k > Len(s) THEN <<s>>
        ELSE <<Slice(s, 0, k)>> \o SplitBlank(Slice(s, k + 2, Len(s)))

\* p.replace(chr(10), "<br>")
BreakLines(s) == [k \in 1..Len(s) |-> IF s[k] = NL THEN "<br>" ELSE s[k]]

\* p.startswith('<h'), '<pre', '<blockquote': a tag the substitutions wrote,
\* or the characters themselves
StartsBlock(q) ==
    \/ Head(q) \in {"<h1>", "<h2>", "<h3>", "<h4>", "<pre>"}
    \/ StartsWith(q, <<"<", "h">>)
    \/ StartsWith(q, <<"<", "p", "r", "e">>)
    \/ StartsWith(q, <<"<", "b", "l", "o", "c", "k", "q", "u", "o", "t", "e">>)

\* the loop over the paragraphs
RECURSIVE Paragraphs(_)
Paragraphs(ps) ==
    IF ps = << >> THEN << >>
    ELSE LET q == Strip(Head(ps), AllSpace)
         IN  IF q = << >> THEN Paragraphs(Tail(ps))
             ELSE IF StartsBlock(q) THEN <<q>> \o Paragraphs(Tail(ps))
             ELSE <<<<"<p>">> \o BreakLines(q) \o <<"</p>">>>> \o Paragraphs(Tail(ps))

\* what export_as_html reads of the widget; the faulty variant reads the
\* buffer in Markdown mode only
html_content_of_mode(widget) ==
    IF widget.markdown_enabled THEN widget.raw_content ELSE << >>

html_content(widget) == widget.raw_content

exported_html(widget) ==
    Join(Paragraphs(SplitBlank(SubAll(html_content(widget), Len(Substitutions)))))

----------------------------------------------------------------------------
(* SpecInline: the inline formatter applied to every line of Lines *)

NotFormatted == [done |-> FALSE, text |-> << >>, formats |-> << >>, contents |-> << >>]

WidgetInit ==
    /\ raw_content = << >>
    /\ markdown_enabled = TRUE
    /\ sink = EmptySink
    /\ blocks = << >>
    /\ last_op = "init"
    /\ last_args = << >>
    /\ again = FALSE
    /\ edits = 0

NotExported ==
    [done |-> FALSE, raw |-> << >>, html |-> << >>, markdown_enabled |-> TRUE,
     sink |-> EmptySink, other_view |-> FALSE]

----------------------------------------------------------------------------
(* ChatSession (chat_handler.py).  A message is [role, content, timestamp, *)
(* tokens]; the time of the clock is left abstract.                        *)

Now == "time"

\* ChatSession.__init__
NewSession == [messages |-> << >>, message_count |-> 0, total_tokens |-> 0]

\* add_message without self.message_count += 1
add_message_uncounted(s, role, content, tokens) ==
    [messages |-> Append(s.messages, [role |-> role, content |-> content,
                                      timestamp |-> Now, tokens |-> tokens]),
     message_count |-> s.message_count,
     total_tokens |-> s.total_tokens + tokens]

\* ChatSession.add_message
add_message(s, role, content, tokens) ==
    [messages |-> Append(s.messages, [role |-> role, content |-> content,
                                      timestamp |-> Now, tokens |-> tokens]),
     message_count |-> s.message_count + 1,
     total_tokens |-> s.total_tokens + tokens]

\* ChatSession.get_api_messages
get_api_messages(s) ==
    [k \in 1..Len(s.messages) |->
         [role |-> s.messages[k].role, content |-> s.messages[k].content]]

\* ChatSession.clear_messages
clear_messages(s) == [messages |-> << >>, message_count |-> 0, total_tokens |-> 0]

----------------------------------------------------------------------------
\* DeepSeekGUI.__init__, ChatHandler.__init__ and StreamingHandler.__init__:
\* nothing is streaming, the input box is empty
HostInit ==
    /\ gui_markdown_enabled = TRUE
    /\ streaming_stopped = FALSE
    /\ should_stop = FALSE
    /\ stop_enabled = FALSE
    /\ workers = << >>
    /\ after_queue = << >>
    /\ origin = << >>
    /\ shown_chunks = << >>
    /\ session = NewSession
    /\ is_streaming = FALSE
    /\ send_enabled = FALSE
    /\ user_input = << >>

InitInline ==
    /\ line \in Lines
    /\ formatted = NotFormatted
    /\ WidgetInit
    /\ exported = NotExported
    /\ HostInit

FormatLine ==
    /\ ~formatted.done
    /\ formatted' = [done |-> TRUE,
                     text |-> process_inline_formatting(line).text,
                     formats |-> process_inline_formatting(line).formats,
                     contents |-> process_inline_formatting(line).contents]
    /\ UNCHANGED <<line, widget_vars, export_vars, host_vars, chat_vars>>

NextInline == FormatLine

SpecInline == InitInline /\ [][NextInline]_vars

----------------------------------------------------------------------------
(* Spec: the widget.  Every action is one public method of MarkdownText.   *)

Init ==
    /\ line = << >>
    /\ formatted = NotFormatted
    /\ WidgetInit
    /\ exported = NotExported
    /\ HostInit

CalledWith(op, args) ==
    /\ last_op' = op
    /\ last_args' = args
    /\ again' = (last_op = op)

Called(op) == CalledWith(op, << >>)

\* self.raw_content += text, then += end; the faulty variant forgets end
appended_without_end(raw, text, end) == raw \o text

appended(raw, text, end) == raw \o text \o end

append_raw_text(text, end) ==
    /\ edits < MaxEdits
    /\ raw_content' = appended(raw_content, text, end)
    /\ edits' = edits + 1
    /\ CalledWith("append_raw_text", <<text, end>>)
    /\ UNCHANGED <<markdown_enabled, sink, blocks, inline_vars, chat_vars, export_vars, host_vars>>

set_raw_content(content) ==
    /\ edits < MaxEdits
    /\ raw_content' = content
    /\ edits' = edits + 1
    /\ CalledWith("set_raw_content", <<content>>)
    /\ UNCHANGED <<markdown_enabled, sink, blocks, inline_vars, chat_vars, export_vars, host_vars>>

\* clear_all; the history keeps what was cleared.  The faulty variant
\* clears the display and leaves the buffer.
clear_all_display_only ==
    /\ sink' = delete_all(sink)
    /\ blocks' = << >>
    /\ CalledWith("clear_all", <<raw_content, sink.text>>)
    /\ UNCHANGED <<raw_content, markdown_enabled, edits, inline_vars, chat_vars, export_vars, host_vars>>

clear_all ==
    /\ raw_content' = << >>
    /\ sink' = delete_all(sink)
    /\ blocks' = << >>
    /\ CalledWith("clear_all", <<raw_content, sink.text>>)
    /\ UNCHANGED <<markdown_enabled, edits, inline_vars, chat_vars, export_vars, host_vars>>

render_as_markdown ==
    /\ blocks' = render_markdown_text(raw_content)
    /\ sink' = Emit(delete_all(sink), blocks', 1)
    /\ Called("render_as_markdown")
    /\ UNCHANGED <<raw_content, markdown_enabled, edits, inline_vars, chat_vars, export_vars, host_vars>>

\* what render_as_plain_text inserts; the faulty variant drops a last newline
plain_text_stripped(raw) ==
    IF Len(raw) > 0 /\ raw[Len(raw)] = NL THEN Slice(raw, 0, Len(raw) - 1) ELSE raw

plain_text(raw) == raw

render_as_plain_text ==
    /\ LET inserted == insert(delete_all(sink), 0, plain_text(raw_content))
       IN  sink' = tag_add(inserted, "normal", 0, Len(inserted.text))
    /\ blocks' = << >>
    /\ Called("render_as_plain_text")
    /\ UNCHANGED <<raw_content, markdown_enabled, edits, inline_vars, chat_vars, export_vars, host_vars>>

\* the body of a render when the buffer was changed in the same call:
\* render_as_markdown or render_as_plain_text on the new buffer
Render(markdown) ==
    /\ blocks' = IF markdown THEN render_markdown_text(raw_content') ELSE << >>
    /\ sink' = IF markdown
               THEN Emit(delete_all(sink), blocks', 1)
               ELSE LET inserted == insert(delete_all(sink), 0, plain_text(raw_content'))
                    IN  tag_add(inserted, "normal", 0, Len(inserted.text))

append_and_render(text, end, markdown) ==
    /\ edits < MaxEdits
    /\ raw_content' = appended(raw_content, text, end)
    /\ Render(markdown)
    /\ edits' = edits + 1
    /\ CalledWith("append_and_render", <<text, end, markdown>>)
    /\ UNCHANGED <<markdown_enabled, inline_vars, chat_vars, export_vars, host_vars>>

switch_render_mode(markdown) ==
    /\ markdown_enabled' = markdown
    /\ raw_content' = raw_content
    /\ Render(markdown)
    /\ CalledWith("switch_render_mode", <<markdown>>)
    /\ UNCHANGED <<edits, inline_vars, chat_vars, export_vars, host_vars>>

Next ==
    \/ \E text \in Chunks, end \in Ends : append_raw_text(text, end)
    \/ \E content \in Docs : set_raw_content(content)
    \/ clear_all
    \/ render_as_markdown
    \/ render_as_plain_text
    \/ \E text \in Chunks, end \in Ends, markdown \in BOOLEAN :
           append_and_render(text, end, markdown)
    \/ \E markdown \in BOOLEAN : switch_render_mode(markdown)

Spec == Init /\ [][Next]_vars

----------------------------------------------------------------------------
(* SpecExport: export_as_html called on every document of ExportDocs,      *)
(* between renders and switches of the render mode.                        *)

\* the documents exported: the three of Docs and every two chunks, one per line
ExportDocs == Docs \cup { a \o <<NL>> \o b : a, b \in Chunks \cup {NotBoldCode} }

\* the widget after set_raw_content(content), content in ExportDocs
InitExport ==
    /\ line = << >>
    /\ formatted = NotFormatted
    /\ raw_content \in ExportDocs
    /\ markdown_enabled = TRUE
    /\ sink = EmptySink
    /\ blocks = << >>
    /\ last_op = "set_raw_content"
    /\ last_args = <<raw_content>>
    /\ again = FALSE
    /\ edits = 1
    /\ exported = NotExported
    /\ HostInit

self == [raw_content |-> raw_content, markdown_enabled |-> markdown_enabled, sink |-> sink]

\* export_as_html; the history keeps the state it was called in and tells
\* whether the call before it saw the same buffer in another mode or sink
export_as_html ==
    /\ exported' =
           [done |-> TRUE,
            raw |-> raw_content,
            html |-> exported_html(self),
            markdown_enabled |-> markdown_enabled,
            sink |-> sink,
            other_view |-> /\ exported.done
                           /\ exported.raw = raw_content
                           /\ exported.markdown_enabled # markdown_enabled
                           /\ exported.sink.text # sink.text]
    /\ Called("export_as_html")
    /\ UNCHANGED <<raw_content, markdown_enabled, sink, blocks, edits, inline_vars, chat_vars, host_vars>>

NextExport ==
    \/ export_as_html
    \/ \E markdown \in BOOLEAN : switch_render_mode(markdown)
    \/ render_as_markdown
    \/ render_as_plain_text

SpecExport == InitExport /\ [][NextExport]_vars

----------------------------------------------------------------------------
(* SpecBlocks: the renders of the buffers of one line and of two lines,    *)
(* the lines taken from every branch of the line loop.                     *)

Bold == <<"*", "*", "b", "*", "*">>

\* a line for each branch: inline markup in a paragraph, a list item, a
\* heading and a quote; headings and list items with and without indentation
BlockLines ==
    { Bold,
      <<"-", " ">> \o Bold,
      <<"#", " ">> \o Bold,
      <<">", " ">> \o Bold,
      <<"#", "#", " ", "T">>,
      <<" ", " ", "#", "#", " ", "T">>,
      <<"1", ".", " ", "x">>,
      <<" ", " ", "1", ".", " ", "x">>,
      <<" ", " ", "-", " ", "x">>,
      <<"*", " ", "x">>,
      <<"-", "-", "-">>,
      Fence }

BlockDocs == Docs \cup BlockLines \cup { a \o <<NL>> \o b : a, b \in BlockLines }

\* the widget after set_raw_content(content), content in BlockDocs
InitBlocks ==
    /\ line = << >>
    /\ formatted = NotFormatted
    /\ raw_content \in BlockDocs
    /\ markdown_enabled = TRUE
    /\ sink = EmptySink
    /\ blocks = << >>
    /\ last_op = "set_raw_content"
    /\ last_args = <<raw_content>>
    /\ again = FALSE
    /\ edits = 1
    /\ exported = NotExported
    /\ HostInit

NextBlocks ==
    \/ render_as_markdown
    \/ render_as_plain_text
    \/ \E markdown \in BOOLEAN : switch_render_mode(markdown)

SpecBlocks == InitBlocks /\ [][NextBlocks]_vars

----------------------------------------------------------------------------
(* SpecGui: DeepSeekGUI (gui_main.py) with a MarkdownText output.  The UI   *)
(* thread runs the handlers of the user's actions and the callbacks handed  *)
(* to master.after(0, ...), one at a time, oldest callback first; a worker  *)
(* thread per request reads the chunks of the API stream.                   *)

MaxRequests == 1

MaxClicks == 2

\* datetime.now().strftime("[%H:%M:%S] "), and the texts of the notices,
\* each abbreviated to a few characters
Timestamp == <<"[", "t", "]", " ">>

UserPrefix == <<"U", ":", " ">>

AssistantPrompt == <<"A", ":", " ">>

StopNotice == <<"s", "t", "o", "p">>

ToggleNotice(status) == <<"M", "d", ":", " ">> \o (IF status THEN <<"1">> ELSE <<"0">>)

UserMessages == { <<"h", "i">> }

\* chunk.choices[0].delta.content of a chunk without content
None == <<"None">>

\* the streams of the API: the contents of their chunks, in order
Responses ==
    { << <<"x">>, <<"*", "y", "*">> >>,
      << None, <<"x">>, <<NL, "#", " ", "z">> >> }

Zeros(n) == [i \in 1..n |-> 0]

\* print_out(message, end) with self.markdown_enabled = markdown
PrintOut(message, end, markdown) ==
    /\ raw_content' = appended(raw_content, Timestamp \o message, end)
    /\ origin' = origin \o Zeros(Len(Timestamp) + Len(message) + Len(end))
    /\ Render(markdown)

\* master.after(0, ...) with the newest callback run first
after_newest_first(callback) == after_queue' = <<callback>> \o after_queue

\* master.after(0, callback)
after(callback) == after_queue' = Append(after_queue, callback)

\* a worker thread: its position, the stream it reads, the index of the chunk
\* it reads next, and the history of its chunks: those handed to after(),
\* those whose callback has run, and how many of these were on display when
\* the output was cleared last
NewWorker(stream) ==
    [pc |-> "create", response |-> stream, next |-> 1, dispatched |-> << >>,
     applied |-> << >>, cleared |-> 0]

send_user_input(user_message, stream) ==
    /\ Len(workers) < MaxRequests
    /\ PrintOut(UserPrefix \o user_message, <<NL>>, gui_markdown_enabled)
    /\ streaming_stopped' = FALSE
    /\ stop_enabled' = TRUE
    /\ workers' = Append(workers, NewWorker(stream))
    /\ Called("send_user_input")
    /\ UNCHANGED <<markdown_enabled, edits, gui_markdown_enabled, should_stop,
                   after_queue, shown_chunks, inline_vars, chat_vars, export_vars>>

stop_streaming ==
    /\ stop_enabled
    /\ edits < MaxClicks
    /\ streaming_stopped' = TRUE
    /\ PrintOut(StopNotice, <<NL>>, gui_markdown_enabled)
    /\ edits' = edits + 1
    /\ Called("stop_streaming")
    /\ UNCHANGED <<markdown_enabled, gui_markdown_enabled, should_stop, stop_enabled,
                   workers, after_queue, shown_chunks, inline_vars, chat_vars, export_vars>>

toggle_markdown_rendering ==
    /\ edits < MaxClicks
    /\ gui_markdown_enabled' = ~gui_markdown_enabled
    /\ PrintOut(ToggleNotice(gui_markdown_enabled'), <<NL>>, gui_markdown_enabled')
    /\ edits' = edits + 1
    /\ Called("toggle_markdown_rendering")
    /\ UNCHANGED <<markdown_enabled, streaming_stopped, should_stop, stop_enabled,
                   workers, after_queue, shown_chunks, inline_vars, chat_vars, export_vars>>

clear_output ==
    /\ raw_content' = << >>
    /\ origin' = << >>
    /\ shown_chunks' = << >>
    /\ workers' = [t \in 1..Len(workers) |->
                       [workers[t] EXCEPT !.cleared = Len(workers[t].applied)]]
    /\ sink' = delete_all(sink)
    /\ blocks' = << >>
    /\ Called("clear_output")
    /\ UNCHANGED <<markdown_enabled, edits, gui_markdown_enabled, streaming_stopped,
                   should_stop, stop_enabled, after_queue, inline_vars, chat_vars, export_vars>>

\* the steps of DeepSeekGUI._streaming_chat_worker on the worker thread t
WorkerStep(t, pc) ==
    /\ t \in 1..Len(workers)
    /\ workers[t].pc = pc
    /\ UNCHANGED <<widget_vars, gui_markdown_enabled, streaming_stopped, should_stop,
                   stop_enabled, origin, shown_chunks, inline_vars, chat_vars, export_vars>>

\* the stream is open: hand over the print of the assistant prompt
worker_create(t) ==
    /\ WorkerStep(t, "create")
    /\ after([fn |-> "print_out", message |-> AssistantPrompt, end |-> << >>])
    /\ workers' = [workers EXCEPT ![t].pc = "loop"]

\* for chunk in response: leave the loop at the end of the stream or when
\* streaming_stopped is set, skip a chunk without content
worker_read(t) ==
    /\ WorkerStep(t, "loop")
    /\ UNCHANGED after_queue
    /\ LET w == workers[t]
       IN  IF w.next > Len(w.response) \/ streaming_stopped
           THEN workers' = [workers EXCEPT ![t].pc = "after_loop"]
           ELSE IF w.response[w.next] = None
           THEN workers' = [workers EXCEPT ![t].next = @ + 1]
           ELSE workers' = [workers EXCEPT ![t].pc = "dispatch"]

\* self.master.after(0, lambda c=content: self._append_streaming_content(c))
worker_dispatch(t) ==
    /\ WorkerStep(t, "dispatch")
    /\ LET content == workers[t].response[workers[t].next]
       IN  /\ after([fn |-> "_append_streaming_content", content |-> content, request |-> t])
           /\ workers' = [workers EXCEPT ![t].pc = "loop",
                                         ![t].next = @ + 1,
                                         ![t].dispatched = Append(@, content)]

\* if not self.streaming_stopped: hand over the print of the last newline
worker_after_loop(t) ==
    /\ WorkerStep(t, "after_loop")
    /\ IF ~streaming_stopped
       THEN after([fn |-> "print_out", message |-> << >>, end |-> <<NL>>])
       ELSE UNCHANGED after_queue
    /\ workers' = [workers EXCEPT ![t].pc = "finally"]

\* finally: self.master.after(0, self._restore_chat_buttons)
worker_finally(t) ==
    /\ WorkerStep(t, "finally")
    /\ after([fn |-> "_restore_chat_buttons"])
    /\ workers' = [workers EXCEPT ![t].pc = "done"]

\* the UI thread runs the oldest callback
Callback(fn) ==
    /\ after_queue # << >>
    /\ Head(after_queue).fn = fn
    /\ after_queue' = Tail(after_queue)

after_print_out ==
    /\ Callback("print_out")
    /\ PrintOut(Head(after_queue).message, Head(after_queue).end, gui_markdown_enabled)
    /\ Called("print_out")
    /\ UNCHANGED <<markdown_enabled, edits, gui_markdown_enabled, streaming_stopped,
                   should_stop, stop_enabled, workers, shown_chunks, inline_vars, chat_vars,
                   export_vars>>

\* DeepSeekGUI._append_streaming_content: self.output.insert(tk.END, content)
after_append_streaming_content ==
    /\ Callback("_append_streaming_content")
    /\ sink' = insert(sink, Len(sink.text), Head(after_queue).content)
    /\ shown_chunks' = Append(shown_chunks, Head(after_queue).content)
    /\ workers' = [workers EXCEPT ![Head(after_queue).request].applied =
                                      Append(@, Head(after_queue).content)]
    /\ Called("_append_streaming_content")
    /\ UNCHANGED <<raw_content, markdown_enabled, blocks, edits, gui_markdown_enabled,
                   streaming_stopped, should_stop, stop_enabled, origin, inline_vars, chat_vars,
                   export_vars>>

after_restore_chat_buttons ==
    /\ Callback("_restore_chat_buttons")
    /\ stop_enabled' = FALSE
    /\ Called("_restore_chat_buttons")
    /\ UNCHANGED <<raw_content, markdown_enabled, sink, blocks, edits,
                   gui_markdown_enabled, streaming_stopped, should_stop, workers,
                   origin, shown_chunks, inline_vars, chat_vars, export_vars>>

NextGui ==
    \/ \E user_message \in UserMessages, stream \in Responses :
           send_user_input(user_message, stream)
    \/ stop_streaming
    \/ toggle_markdown_rendering
    \/ clear_output
    \/ \E t \in 1..MaxRequests : worker_create(t)
    \/ \E t \in 1..MaxRequests : worker_read(t)
    \/ \E t \in 1..MaxRequests : worker_dispatch(t)
    \/ \E t \in 1..MaxRequests : worker_after_loop(t)
    \/ \E t \in 1..MaxRequests : worker_finally(t)
    \/ after_print_out
    \/ after_append_streaming_content
    \/ after_restore_chat_buttons

SpecGui == Init /\ [][NextGui]_vars

----------------------------------------------------------------------------
(* SpecChat: the same window with the chat run by ChatHandler and its       *)
(* StreamingHandler (chat_handler.py).  The session is open; the callbacks  *)
(* that only update the status bar are left out.                            *)

ErrorNotice == <<"e", "r", "r">>

\* a worker of ChatHandler: the fields of NewWorker and the history of the
\* request: how many chunks it had read when stop_streaming was called first
\* while it was in flight (-1: never), whether it added its reply to the
\* session, and whether the _restore_chat_buttons it handed over has run
NewChatWorker(stream) ==
    [pc |-> "create", response |-> stream, next |-> 1, dispatched |-> << >>,
     applied |-> << >>, cleared |-> 0, read_at_stop |-> -1, replied |-> FALSE,
     restored |-> FALSE]

\* the chunks of a reply in one string
RECURSIVE Joined(_)
Joined(chunks) ==
    IF chunks = << >> THEN << >> ELSE Head(chunks) \o Joined(Tail(chunks))

\* DeepSeekGUI.update_buttons_state with a client and a model selected: the
\* send button is enabled when the input box holds text
send_btn_state(content) == content # << >>

\* DeepSeekGUI.on_input_change: a key was released in the input box, which
\* now holds content
on_input_change(content) ==
    /\ user_input' = content
    /\ send_enabled' = send_btn_state(content)
    /\ UNCHANGED <<widget_vars, inline_vars, export_vars, host_vars, session,
                   is_streaming>>

\* ChatHandler.send_message and _start_streaming_chat
send_message(user_message, stream) ==
    /\ Len(workers) < MaxRequests
    /\ session' = add_message(session, "user", user_message, 0)
    /\ PrintOut(UserPrefix \o user_message, <<NL>>, gui_markdown_enabled)
    /\ is_streaming' = TRUE
    /\ should_stop' = FALSE
    /\ send_enabled' = FALSE
    /\ stop_enabled' = TRUE
    /\ workers' = Append(workers, NewChatWorker(stream))
    /\ Called("send_message")
    /\ UNCHANGED <<markdown_enabled, edits, gui_markdown_enabled, streaming_stopped,
                   after_queue, shown_chunks, inline_vars, export_vars>>

\* ChatHandler.send_user_input_from_gui, bound to the send button and to the
\* Return key: nothing is sent from an empty input box, otherwise the box is
\* emptied and its text sent
send_user_input_from_gui(stream) ==
    /\ user_input # << >>
    /\ user_input' = << >>
    /\ send_message(user_input, stream)

\* ChatHandler._restore_chat_buttons: enable_control('send', True),
\* enable_control('stop', False), then update_buttons_state()
RestoreChatButtons ==
    /\ is_streaming' = FALSE
    /\ send_enabled' = send_btn_state(user_input)
    /\ stop_enabled' = FALSE

\* the chunks a worker has read: one more than it handed over when it is
\* about to hand one over
ChunksRead(w) == IF w.pc = "dispatch" THEN w.next ELSE w.next - 1

\* history: the stop is noted at the requests that are in flight
NoteStop(w) ==
    IF w.pc \in {"create", "start", "loop", "dispatch", "after_loop"}
           /\ w.read_at_stop = -1
    THEN [w EXCEPT !.read_at_stop = ChunksRead(w)]
    ELSE w

\* ChatHandler.stop_streaming: the flag, the notice, the buttons at once
handler_stop_streaming ==
    /\ stop_enabled
    /\ edits < MaxClicks
    /\ should_stop' = TRUE
    /\ PrintOut(StopNotice, <<NL>>, gui_markdown_enabled)
    /\ RestoreChatButtons
    /\ workers' = [t \in 1..Len(workers) |-> NoteStop(workers[t])]
    /\ edits' = edits + 1
    /\ Called("stop_streaming")
    /\ UNCHANGED <<markdown_enabled, gui_markdown_enabled, streaming_stopped,
                   after_queue, shown_chunks, inline_vars, export_vars, session,
                   user_input>>

\* the steps of ChatHandler._streaming_chat_worker on the worker thread t
ChatWorkerStep(t, pc) ==
    /\ t \in 1..Len(workers)
    /\ workers[t].pc = pc
    /\ UNCHANGED <<widget_vars, gui_markdown_enabled, streaming_stopped, stop_enabled,
                   origin, shown_chunks, inline_vars, export_vars, is_streaming,
                   send_enabled, user_input>>

\* the stream is open: hand over the print of the assistant prompt
chat_worker_create(t) ==
    /\ ChatWorkerStep(t, "create")
    /\ after([fn |-> "print_out", message |-> AssistantPrompt, end |-> << >>])
    /\ workers' = [workers EXCEPT ![t].pc = "start"]
    /\ UNCHANGED <<should_stop, session>>

\* client.chat.completions.create raises: except hands over the error
\* notice, finally follows
chat_worker_error(t) ==
    /\ ChatWorkerStep(t, "create")
    /\ after([fn |-> "print_out", message |-> ErrorNotice, end |-> <<NL>>])
    /\ workers' = [workers EXCEPT ![t].pc = "finally"]
    /\ UNCHANGED <<should_stop, session>>

\* StreamingHandler.start_streaming, up to the loop: self.should_stop = False
start_streaming(t) ==
    /\ ChatWorkerStep(t, "start")
    /\ should_stop' = FALSE
    /\ workers' = [workers EXCEPT ![t].pc = "loop"]
    /\ UNCHANGED <<after_queue, session>>

\* for chunk in response_stream: leave the loop at the end of the stream or
\* when should_stop is set, skip a chunk without content
chat_worker_read(t) ==
    /\ ChatWorkerStep(t, "loop")
    /\ UNCHANGED <<after_queue, should_stop, session>>
    /\ LET w == workers[t]
       IN  IF w.next > Len(w.response) \/ should_stop
           THEN workers' = [workers EXCEPT ![t].pc = "after_loop"]
           ELSE IF w.response[w.next] = None
           THEN workers' = [workers EXCEPT ![t].next = @ + 1]
           ELSE workers' = [workers EXCEPT ![t].pc = "dispatch"]

\* StreamingHandler._gui_append_content
chat_worker_dispatch(t) ==
    /\ ChatWorkerStep(t, "dispatch")
    /\ UNCHANGED <<should_stop, session>>
    /\ LET content == workers[t].response[workers[t].next]
       IN  /\ after([fn |-> "append_streaming_content", content |-> content,
                     request |-> t])
           /\ workers' = [workers EXCEPT ![t].pc = "loop",
                                         ![t].next = @ + 1,
                                         ![t].dispatched = Append(@, content)]

\* if not self.streaming_handler.should_stop and assistant_message: the
\* reply goes to the session and a line break to the output
chat_worker_after_loop(t) ==
    /\ ChatWorkerStep(t, "after_loop")
    /\ UNCHANGED should_stop
    /\ IF ~should_stop /\ workers[t].dispatched # << >>
       THEN /\ session' = add_message(session, "assistant",
                                      Joined(workers[t].dispatched), 0)
            /\ after([fn |-> "print_out", message |-> << >>, end |-> <<NL>>])
            /\ workers' = [workers EXCEPT ![t].pc = "finally",
                                          ![t].replied = TRUE]
       ELSE /\ UNCHANGED <<after_queue, session>>
            /\ workers' = [workers EXCEPT ![t].pc = "finally"]

\* a finally that hands nothing over
chat_worker_finally_no_restore(t) ==
    /\ ChatWorkerStep(t, "finally")
    /\ UNCHANGED <<should_stop, session, after_queue>>
    /\ workers' = [workers EXCEPT ![t].pc = "done"]

\* finally: self.gui.master.after(0, self._restore_chat_buttons)
chat_worker_finally(t) ==
    /\ ChatWorkerStep(t, "finally")
    /\ UNCHANGED <<should_stop, session>>
    /\ after([fn |-> "restore_chat_buttons", request |-> t])
    /\ workers' = [workers EXCEPT ![t].pc = "done"]

\* StreamingHandler._append_streaming_content on a MarkdownText output:
\* append_raw_text(content, end="") and a render in the mode of the GUI
append_streaming_content ==
    /\ Callback("append_streaming_content")
    /\ raw_content' = appended(raw_content, Head(after_queue).content, << >>)
    /\ origin' = origin \o [i \in 1..Len(Head(after_queue).content) |->
                                Head(after_queue).request]
    /\ Render(gui_markdown_enabled)
    /\ shown_chunks' = Append(shown_chunks, Head(after_queue).content)
    /\ workers' = [workers EXCEPT ![Head(after_queue).request].applied =
                                      Append(@, Head(after_queue).content)]
    /\ Called("append_streaming_content")
    /\ UNCHANGED <<markdown_enabled, edits, gui_markdown_enabled, streaming_stopped,
                   should_stop, stop_enabled, inline_vars, chat_vars, export_vars>>

\* ChatHandler._restore_chat_buttons run by the event loop
restore_chat_buttons ==
    /\ Callback("restore_chat_buttons")
    /\ RestoreChatButtons
    /\ workers' = [workers EXCEPT ![Head(after_queue).request].restored = TRUE]
    /\ Called("restore_chat_buttons")
    /\ UNCHANGED <<raw_content, markdown_enabled, sink, blocks, edits,
                   gui_markdown_enabled, streaming_stopped, should_stop,
                   origin, shown_chunks, inline_vars, export_vars, session,
                   user_input>>

\* a step of the worker thread t
ChatWorkerNext(t) ==
    \/ chat_worker_create(t)
    \/ chat_worker_error(t)
    \/ start_streaming(t)
    \/ chat_worker_read(t)
    \/ chat_worker_dispatch(t)
    \/ chat_worker_after_loop(t)
    \/ chat_worker_finally(t)

\* the event loop runs the callback at the head of its queue: the step of
\* after_print_out, append_streaming_content or restore_chat_buttons as it
\* shows on the queue.  One of the three can run whenever the queue is not
\* empty, and no other step shortens the queue.
EventLoopRuns ==
    /\ after_queue # << >>
    /\ after_queue' = Tail(after_queue)

NextChat ==
    \/ \E content \in UserMessages \cup {<< >>} : on_input_change(content)
    \/ \E stream \in Responses : send_user_input_from_gui(stream)
    \/ handler_stop_streaming
    \/ toggle_markdown_rendering
    \/ clear_output
    \/ \E t \in 1..MaxRequests : chat_worker_create(t)
    \/ \E t \in 1..MaxRequests : chat_worker_error(t)
    \/ \E t \in 1..MaxRequests : start_streaming(t)
    \/ \E t \in 1..MaxRequests : chat_worker_read(t)
    \/ \E t \in 1..MaxRequests : chat_worker_dispatch(t)
    \/ \E t \in 1..MaxRequests : chat_worker_after_loop(t)
    \/ \E t \in 1..MaxRequests : chat_worker_finally(t)
    \/ after_print_out
    \/ append_streaming_content
    \/ restore_chat_buttons

SpecChat == Init /\ [][NextChat]_vars

\* SpecChat with threads that keep running and an event loop that keeps
\* running the callbacks handed to it
FairSpecChat ==
    /\ SpecChat
    /\ \A t \in 1..MaxRequests : WF_vars(ChatWorkerNext(t))
    /\ WF_after_queue(EventLoopRuns)

----------------------------------------------------------------------------
(* SpecSession: one ChatSession driven by its three methods, with roles,   *)
(* contents and token counts from small sets.                              *)

MaxMessages == 3

Roles == {"user", "assistant"}

Contents == {<<"h", "i">>, <<"o", "k">>}

TokenCounts == {0, 2}

\* what the calls on the session leave alone
outside_session == <<line, formatted, raw_content, markdown_enabled, sink, blocks,
                     edits, exported, gui_markdown_enabled, streaming_stopped,
                     should_stop, stop_enabled, workers, after_queue, origin,
                     shown_chunks, is_streaming, send_enabled, user_input>>

\* session.add_message(role, content, tokens)
call_add_message(role, content, tokens) ==
    /\ Len(session.messages) < MaxMessages
    /\ session' = add_message(session, role, content, tokens)
    /\ CalledWith("add_message", <<role, content, tokens>>)
    /\ UNCHANGED outside_session

\* session.get_api_messages(): last_args holds the list it returned
call_get_api_messages ==
    /\ CalledWith("get_api_messages", get_api_messages(session))
    /\ UNCHANGED <<session, outside_session>>

\* session.clear_messages()
call_clear_messages ==
    /\ session' = clear_messages(session)
    /\ Called("clear_messages")
    /\ UNCHANGED outside_session

NextSession ==
    \/ \E role \in Roles, content \in Contents, tokens \in TokenCounts :
           call_add_message(role, content, tokens)
    \/ call_get_api_messages
    \/ call_clear_messages

SpecSession == Init /\ [][NextSession]_vars

----------------------------------------------------------------------------
(* Claims about the inline formatter, checked under SpecInline *)

Spans == formatted.formats

InText(f) == 0 <= f.start /\ f.start <= f.end /\ f.end <= Len(formatted.text)

\* s holds p as a contiguous run, at 0-based position k
OccursAt(s, p, k) == k + Len(p) <= Len(s) /\ Slice(s, k, k + Len(p)) = p

Occurrences(s, p) == { k \in 0..Len(s) : OccursAt(s, p, k) }

HasNo(s, cs) == \A k \in 1..Len(s) : s[k] \notin cs

\* C1: the spans the inline formatter returns for a line never overlap: no
\* two of them have a.start < b.end and b.start < a.end.
C1_SpansDoNotOverlap ==
    formatted.done =>
        \A i, j \in 1..Len(Spans) :
            i # j => ~(Spans[i].start < Spans[j].end /\ Spans[j].start < Spans[i].end)

\* C2: every span returned lies inside the returned text, 0 <= start <= end
\* <= length, and the returned text between start and end is the inner
\* content of the construct that produced the span.
C2_SpansAreOffsetsIntoText ==
    formatted.done =>
        \A k \in 1..Len(Spans) :
            /\ InText(Spans[k])
            /\ Slice(formatted.text, Spans[k].start, Spans[k].end) = formatted.contents[k]

\* the line holds the inline-code construct around **not bold**, once: one
\* match of the code pattern has that inner text
HasNotBoldCode ==
    LET code_matches == finditer(code_pattern, line)
    IN  Cardinality({ k \in 1..Len(code_matches) : code_matches[k].content = NotBold }) = 1

\* C3: a line holding the inline-code construct around **not bold** gets
\* exactly one inline_code span for that inner text and no bold span from it,
\* and the inner text, asterisks included, is in the returned text.
C3_CodeImmunity ==
    (formatted.done /\ HasNotBoldCode) =>
        /\ Cardinality({ k \in 1..Len(Spans) :
                           Spans[k].type = "inline_code"
                           /\ formatted.contents[k] = NotBold }) = 1
        /\ \A k \in 1..Len(Spans) :
               Spans[k].type = bold_pattern =>
                   formatted.contents[k] # SubSeq(NotBold, 3, Len(NotBold) - 2)
        /\ Occurrences(formatted.text, NotBold) # {}

\* the line is d x d for a delimiter d of n asterisks and an inner text x
\* that is not empty and holds no asterisk
Delimited(n) ==
    /\ Len(line) > 2 * n
    /\ Slice(line, 0, n) = Repeat("*", n)
    /\ Slice(line, Len(line) - n, Len(line)) = Repeat("*", n)
    /\ HasNo(Slice(line, n, Len(line) - n), {"*"})

Inner(n) == Slice(line, n, Len(line) - n)

KindOf(n) == <<italic_pattern, bold_pattern, bold_italic_pattern>>[n]

OneSpanOver(n) ==
    /\ formatted.text = Inner(n)
    /\ Spans = <<[start |-> 0, end |-> Len(Inner(n)), type |-> KindOf(n)]>>

\* the inner text holds no inline-code, strikethrough or link construct
NoOtherConstruct(x) ==
    /\ finditer(code_pattern, x) = << >>
    /\ finditer(strikethrough_pattern, x) = << >>
    /\ finditer(link_pattern, x) = << >>

----------------------------------------------------------------------------
(* Claims about rendering, checked under Spec.  The lines of the buffer    *)
(* are classified here from the specification's words, not with the        *)
(* renderer's own tests.                                                    *)

RawLines == Split(raw_content)

LineIndexes == 0..(Len(RawLines) - 1)

RawLine(i) == RawLines[i + 1]

Trimmed(l) == Strip(l, Whitespace)

\* the trimmed line starts with three backquotes
FenceLine(l) ==
    /\ Len(Trimmed(l)) >= 3
    /\ \A k \in 1..3 : Trimmed(l)[k] = Backtick

\* line i lies after an opening fence line that no line before it closed
InsideFence(i) ==
    /\ ~FenceLine(RawLine(i))
    /\ Cardinality({ k \in 0..(i - 1) : FenceLine(RawLine(k)) }) % 2 = 1

\* a later line closes the fence line i lies in
FenceClosedAfter(i) == \E k \in LineIndexes : k > i /\ FenceLine(RawLine(k))

\* the blocks that consumed line i
Covering(i) == { k \in 1..Len(blocks) : blocks[k].first <= i /\ i < blocks[k].next }

\* the sink holds the block's text at the block's position
Shown(b) == Slice(sink.text, b.line_start, b.line_start + Len(b.text)) = b.text

Tagged(b, tag) ==
    [tag |-> tag, start |-> b.line_start, end |-> b.line_start + Len(b.text)] \in sink.tags

Rendered == last_op = "render_as_markdown"

NotBlank(b) == b.text # <<NL>>

\* C4: the example document renders as one level-1 heading "Title" and one
\* paragraph "Some bold and italic and code." whose spans are bold over
\* "bold", italic over "italic" and inline code over "code", each at its
\* offset in the stripped text (blank lines aside).
C4_EndToEndExample ==
    (Rendered /\ raw_content = Example) =>
        LET shown == SelectSeq(blocks, NotBlank)
        IN  /\ Len(shown) = 2
            /\ shown[1].kind = "heading"
            /\ shown[1].tag = "h1"
            /\ shown[1].text = <<"T", "i", "t", "l", "e", NL>>
            /\ shown[2].kind = "paragraph"
            /\ shown[2].text =
                   <<"S", "o", "m", "e", " ", "b", "o", "l", "d", " ", "a",
                     "n", "d", " ", "i", "t", "a", "l", "i", "c", " ", "a",
                     "n", "d", " ", "c", "o", "d", "e", ".", NL>>
            /\ { shown[2].formats[k] : k \in 1..Len(shown[2].formats) } =
                   { [start |-> 5, end |-> 9, type |-> bold_pattern],
                     [start |-> 14, end |-> 20, type |-> italic_pattern],
                     [start |-> 25, end |-> 29, type |-> "inline_code"] }

\* C6: every line between an opening fence line and its closing fence line
\* belongs to one code block, is emitted unchanged in that block's text with
\* no inline span, and the two fence lines are not in the text.
C6_FenceVerbatim ==
    Rendered =>
        \A i \in LineIndexes :
            (InsideFence(i) /\ FenceClosedAfter(i)) =>
                \E k \in 1..Len(blocks) :
                    LET b == blocks[k]
                    IN  /\ Covering(i) = {k}
                        /\ b.kind = "code_block"
                        /\ b.formats = << >>
                        /\ Len(Split(b.text)) = b.next - b.first - 1
                        /\ Split(b.text)[i - b.first] = RawLine(i)
                        /\ FenceLine(RawLine(b.first))
                        /\ FenceLine(RawLine(b.next - 1))
                        /\ Shown(b)
                        /\ Tagged(b, "code_block")

C6_Witness ==
    /\ Rendered
    /\ raw_content = FenceDoc
    /\ \E k \in 1..Len(blocks) : blocks[k].kind = "code_block" /\ Shown(blocks[k])

\* the trimmed line starts with more than four '#'
TooManyHashes(l) ==
    /\ Len(Trimmed(l)) > 4
    /\ \A k \in 1..5 : Trimmed(l)[k] = "#"

NoInlineConstruct(l) ==
    \A pattern \in {code_pattern, strikethrough_pattern, bold_italic_pattern,
                    bold_pattern, italic_pattern, link_pattern} :
        finditer(pattern, l) = << >>

\* C7: a line (outside a fence) whose trimmed content starts with more than
\* four '#' is never a heading: it is a paragraph, and its text is the
\* literal line when the line holds no inline construct.
C7_HeadingBoundary ==
    Rendered =>
        \A i \in LineIndexes :
            (TooManyHashes(RawLine(i)) /\ ~InsideFence(i)) =>
                \E k \in 1..Len(blocks) :
                    /\ Covering(i) = {k}
                    /\ blocks[k].kind = "paragraph"
                    /\ NoInlineConstruct(RawLine(i)) =>
                           blocks[k].text = RawLine(i) \o <<NL>>

\* the trimmed line is three or more of '-', '*', '_' and nothing else
RuleLine(l) ==
    /\ Len(Trimmed(l)) >= 3
    /\ \A k \in 1..Len(Trimmed(l)) : Trimmed(l)[k] \in {"-", "*", "_"}

IsRuleBlock(i) ==
    \E k \in 1..Len(blocks) :
        LET b == blocks[k]
        IN  /\ Covering(i) = {k}
            /\ b.kind = "horizontal_rule"
            /\ b.formats = << >>
            /\ b.text = Repeat(RuleGlyph, 50) \o <<NL>>
            /\ Shown(b)
            /\ Tagged(b, "normal")

\* C8 as stated: every line whose trimmed content is three or more of '-',
\* '*', '_' is emitted as a horizontal rule with the fixed text of 50 rule
\* glyphs, never as a list item or as inline markup.
C8_EveryRuleLine ==
    Rendered =>
        \A i \in LineIndexes : RuleLine(RawLine(i)) => IsRuleBlock(i)

\* C8 as amended: every such line that is not inside a code fence is.
C8_RuleOutsideFence ==
    Rendered =>
        \A i \in LineIndexes :
            (RuleLine(RawLine(i)) /\ ~InsideFence(i)) => IsRuleBlock(i)

C8_Witness ==
    /\ Rendered
    /\ \E i, j \in LineIndexes :
           /\ RawLine(i) = <<"-", "-", "-">>
           /\ RawLine(j) = <<"*", "*", "*">>
           /\ IsRuleBlock(i)
           /\ IsRuleBlock(j)

Renders == {"render_as_markdown", "render_as_plain_text"}

\* C9: a render called right after a render in the same mode, the buffer not
\* touched in between, leaves the sink's text and tags as they were.
C9_RenderIdempotent ==
    [][(last_op \in Renders /\ last_op' = last_op) => sink' = sink]_vars

C9_Witness ==
    /\ Rendered
    /\ again
    /\ raw_content = Example
    /\ sink.text # << >>

\* the tags on the character at offset p of the sink
TagsAt(p) == { t.tag : t \in { r \in sink.tags : r.start <= p /\ p < r.end } }

\* C10: after render_as_plain_text the sink's text is the buffer, character
\* for character, and every character carries the one style 'normal'.
C10_PlainTextIdentity ==
    last_op = "render_as_plain_text" =>
        /\ sink.text = raw_content
        /\ \A p \in 0..(Len(sink.text) - 1) : TagsAt(p) = {"normal"}

C10_Witness ==
    /\ last_op = "render_as_plain_text"
    /\ raw_content = Example
    /\ sink.text = Example

\* C11: switch_render_mode never changes the buffer, and a switch to the mode
\* that is already active leaves the sink as it was.
C11_SwitchIsIdempotent ==
    [][last_op' = "switch_render_mode" =>
           /\ raw_content' = raw_content
           /\ (last_args'[1] = markdown_enabled => sink' = sink)]_vars

\* C12: append_raw_text(text, end) makes the buffer the old buffer followed
\* by text and then by end, and changes neither the sink nor the render mode.
C12_AppendOnlyAppends ==
    [][last_op' = "append_raw_text" =>
           /\ raw_content' = raw_content \o last_args'[1] \o last_args'[2]
           /\ sink' = sink
           /\ markdown_enabled' = markdown_enabled]_vars

C12_Witness ==
    /\ last_op = "append_raw_text"
    /\ last_args = <<TooDeep, <<NL>>>>
    /\ sink.text # << >>
    /\ Len(raw_content) > Len(TooDeep) + 1

\* C13: after clear_all, from any state, the buffer is empty and the sink
\* holds no text; an append right after the clear makes the buffer exactly
\* the appended text, and append_and_render right after the clear shows the
\* rendering of the appended text and nothing else.
C13_ClearThenAppend ==
    [][/\ last_op' = "clear_all" => (raw_content' = << >> /\ sink'.text = << >>)
       /\ (last_op = "clear_all" /\ last_op' \in {"append_raw_text", "append_and_render"}) =>
              raw_content' = last_args'[1] \o last_args'[2]
       /\ (last_op = "clear_all" /\ last_op' = "append_and_render") =>
              IF last_args'[3]
              THEN sink' = Emit(EmptySink, render_markdown_text(last_args'[1] \o last_args'[2]), 1)
              ELSE sink'.text = last_args'[1] \o last_args'[2]]_vars

\* one edit before that clear, one after it: the text shown is the text
\* appended after the clear
C13_Witness ==
    /\ last_op = "append_and_render"
    /\ last_args = <<TooDeep, <<NL>>, FALSE>>
    /\ edits = 2
    /\ raw_content = TooDeep \o <<NL>>
    /\ sink.text = raw_content

\* C14: export_as_html changes neither the buffer, nor the render mode, nor
\* the sink, and returns the HTML the call before it returned whenever the
\* buffer is the same, whatever the render mode and the sink of the two calls.
C14_ExportIsPure ==
    [][last_op' = "export_as_html" =>
           /\ raw_content' = raw_content
           /\ markdown_enabled' = markdown_enabled
           /\ sink' = sink
           /\ (exported.done /\ exported.raw = raw_content) =>
                  exported'.html = exported.html]_vars

\* two exports of the example document, in different modes with different
\* text on display
C14_Witness ==
    /\ last_op = "export_as_html"
    /\ exported.other_view
    /\ exported.raw = Example
    /\ exported.html # << >>

\* the chunks with content, in the order of the stream
NonNone(chunks) == SelectSeq(chunks, LAMBDA c : c # None)

\* the streamed part of the buffer: its characters that came with request t
Streamed(t) ==
    LET at == SelectSeq([i \in 1..Len(raw_content) |-> i], LAMBDA i : origin[i] = t)
    IN  [k \in 1..Len(at) |-> raw_content[at[k]]]

\* the chunks of request t whose callback has not run yet, oldest first
Pending(t) ==
    LET waiting == SelectSeq(after_queue,
                             LAMBDA e : e.fn = "append_streaming_content" /\ e.request = t)
    IN  [k \in 1..Len(waiting) |-> waiting[k].content]

\* C15: the chunks of a stream reach the buffer in the order the stream
\* produced them: the chunks handed over are the chunks read, in order; those
\* applied and those waiting are together the chunks handed over, in order;
\* and the streamed part of the buffer is the concatenation of the chunks
\* applied (since the output was cleared), so that once every callback has
\* run no chunk is lost, duplicated or out of place.
C15_StreamInOrder ==
    /\ Len(origin) = Len(raw_content)
    /\ \A t \in 1..Len(workers) :
           LET w == workers[t]
           IN  /\ w.dispatched = NonNone(SubSeq(w.response, 1, w.next - 1))
               /\ w.applied \o Pending(t) = w.dispatched
               /\ Streamed(t) = Concat(SubSeq(w.applied, w.cleared + 1, Len(w.applied)), 1)

\* a stream of two chunks read to its end, every callback run, a notice
\* printed between the two chunks
C15_Witness ==
    /\ Len(workers) = 1
    /\ workers[1].pc = "done"
    /\ after_queue = << >>
    /\ workers[1].cleared = 0
    /\ workers[1].applied = << <<"x">>, <<"*", "y", "*">> >>
    /\ Streamed(1) = <<"x", "*", "y", "*">>
    /\ \E i, j, k \in 1..Len(origin) :
           i < j /\ j < k /\ origin[i] = 1 /\ origin[j] = 0 /\ origin[k] = 1

\* the line has the shape of a heading: the trimmed line starts with '#',
\* unless the line itself starts with more than four of them
HeadingShaped(l) ==
    /\ StartsWith(Trimmed(l), <<"#">>)
    /\ ~(Len(l) > 4 /\ \A k \in 1..5 : l[k] = "#")

QuoteLine(l) == StartsWith(Trimmed(l), <<">">>)

\* a marker ('-', '*', '+', or digits and a dot) and whitespace after the
\* indentation
ListLine(l) ==
    LET t == LStrip(l, Whitespace)
        d == FirstNotIn(t, 0, Digits)
    IN  \/ Len(t) >= 2 /\ t[1] \in {"-", "*", "+"} /\ t[2] \in Whitespace
        \/ d > 0 /\ Len(t) >= d + 2 /\ t[d + 1] = "." /\ t[d + 2] \in Whitespace

\* the line matches no block rule
Unmatched(l) ==
    /\ ~FenceLine(l)
    /\ ~HeadingShaped(l)
    /\ ~QuoteLine(l)
    /\ ~ListLine(l)
    /\ ~RuleLine(l)

C19_OpenFenceToTheEnd ==
    Rendered =>
        \A i \in LineIndexes :
            (InsideFence(i) /\ ~FenceClosedAfter(i)) =>
                LET b == blocks[Len(blocks)]
                IN  /\ Covering(i) = {Len(blocks)}
                    /\ b.kind = "code_block"
                    /\ b.formats = << >>
                    /\ FenceLine(RawLine(b.first))
                    /\ b.next = Len(RawLines) + 1
                    /\ Len(Split(b.text)) = Len(RawLines) - b.first
                    /\ Split(b.text)[i - b.first] = RawLine(i)
                    /\ Shown(b)
                    /\ Tagged(b, "code_block")

\* the document of a fence left open over a line with bold markers
C19_Witness ==
    /\ Rendered
    /\ raw_content = OpenFenceDoc
    /\ Len(blocks) = 1
    /\ blocks[1].text = NotBold \o <<NL, NL>>
    /\ sink.text = blocks[1].text

\* how often the character c stands in s
Count(s, c) == Cardinality({ k \in 1..Len(s) : s[k] = c })

SpanKinds == { Spans[k].type : k \in 1..Len(Spans) }

\* the delimiter has no partner in the line: the line holds one '*', one
\* backquote, one pair of '~', or a '[' and nowhere a ']' before a '('
Lone(c) ==
    CASE c = "*" -> Count(line, "*") = 1
      [] c = Backtick -> Count(line, Backtick) = 1
      [] c = "~" -> Count(line, "~") = 2
      [] c = "[" -> Count(line, "[") > 0 /\ Occurrences(line, <<"]", "(">>) = {}

\* the kinds of span the delimiter opens
KindsOf(c) ==
    CASE c = "*" -> {italic_pattern, bold_pattern, bold_italic_pattern}
      [] c = Backtick -> {"inline_code"}
      [] c = "~" -> {strikethrough_pattern}
      [] c = "[" -> {link_pattern}

\* C20: a delimiter without a partner is harmless: the formatter returns, the
\* text it returns holds the delimiter characters as the line does, and no
\* span of a kind that the delimiter opens is produced.
C20_UnmatchedLeftInPlace ==
    formatted.done =>
        \A c \in {"*", Backtick, "~", "["} :
            Lone(c) =>
                /\ Count(formatted.text, c) = Count(line, c)
                /\ SpanKinds \cap KindsOf(c) = {}

\* a lone '*', a lone '[' and a complete code span in one line: the code
\* span is formatted, the two delimiters stay
C20_Witness ==
    /\ formatted.done
    /\ line = <<"*", "[", Backtick, "a", Backtick>>
    /\ formatted.text = <<"*", "[", "a">>
    /\ SpanKinds = {"inline_code"}

\* C16: stopping a stream removes nothing: every chunk shown before the stop
\* is in the buffer after it, and in the text on display when the text is
\* shown as it is (plain mode), also after the render of the stop notice.
C16_StopRemovesNothing ==
    [][last_op' = "stop_streaming" =>
           \A k \in 1..Len(shown_chunks) :
               /\ Occurrences(raw_content', shown_chunks[k]) # {}
               /\ (~gui_markdown_enabled =>
                      Occurrences(sink'.text, shown_chunks[k]) # {})]_vars

\* the text a render of the buffer puts on display, in either mode
Displays(raw) ==
    { Emit(EmptySink, render_markdown_text(raw), 1).text, plain_text(raw) }

\* C17: only the renderer writes the sink: in every state the text on display
\* is what a render of the buffer, or a clear, puts there.
C17_SinkIsRenderOfBuffer == sink.text \in Displays(raw_content)

----------------------------------------------------------------------------
(* Claims on the blocks of a render, checked under SpecBlocks *)

\* the first line of the buffer that block b consumed
BlockLine(b) == RawLine(b.first)

\* the text of a list item line once its marker is normalised, through the
\* inline formatter
ItemFormatted(l) == process_inline_formatting(clean_line(l))

\* C21: a list item goes through the inline formatter as a paragraph does:
\* the text emitted for it is the formatter's text for the item (delimiters
\* stripped) and it carries the formatter's spans; a heading, a quote, a
\* code block and a rule carry no inline span.
C21_ListItemsAreFormatted ==
    Rendered =>
        \A k \in 1..Len(blocks) :
            LET b == blocks[k]
            IN  /\ b.kind = "list_item" =>
                       /\ b.text = ItemFormatted(BlockLine(b)).text \o <<NL>>
                       /\ b.formats = ItemFormatted(BlockLine(b)).formats
                /\ b.kind \in {"heading", "blockquote", "code_block", "horizontal_rule"} =>
                       b.formats = << >>

\* the buffer holds a fenced code block: a line that starts with three
\* backquotes and a later line of three backquotes
HasClosedFence(raw) ==
    \E i, j \in 1..Len(Split(raw)) :
        i < j /\ StartsWith(Split(raw)[i], Fence) /\ Split(raw)[j] = Fence

\* C22: export_as_html turns a fenced code block of the buffer into
\* <pre><code>...</code></pre> and makes no inline <code> element of the
\* backquotes of the fence.
C22_FenceToPre ==
    (exported.done /\ HasClosedFence(exported.raw)) =>
        /\ Occurrences(exported.html, <<"<pre>", "<code>">>) # {}
        /\ Occurrences(exported.html, <<"</code>", "</pre>">>) # {}
        /\ Occurrences(exported.html, <<"<code>", Backtick>>) = {}

\* the number of '#' the trimmed line starts with
HashRun(l) == FirstNotIn(Trimmed(l), 0, {"#"})

\* the trimmed line without its run of '#' and the space after it
AfterHashes(l) ==
    LET rest == Slice(Trimmed(l), HashRun(l), Len(Trimmed(l)))
    IN  IF StartsWith(rest, <<" ">>) THEN Tail(rest) ELSE rest

\* C23: a heading block has a level from 1 to 4, the number of '#' at the
\* start of the trimmed line, and the tag of that level, with or without
\* whitespace before the '#'; its text is the line without the '#' and the
\* space after them.
C23_HeadingLevel ==
    Rendered =>
        \A k \in 1..Len(blocks) :
            blocks[k].kind = "heading" =>
                LET b == blocks[k]
                    n == HashRun(BlockLine(b))
                IN  /\ n \in 1..4
                    /\ b.tag = <<"h1", "h2", "h3", "h4">>[n]
                    /\ Tagged(b, b.tag)
                    /\ b.text = AfterHashes(BlockLine(b)) \o <<NL>>

\* the length of the indentation of a line
Indent(l) == FirstNotIn(l, 0, Whitespace)

\* C24: the text of a list item is the line with its marker '-', '*' or '+'
\* replaced by the bullet glyph, the indentation kept; for a numbered item
\* it is the line as it stands, number and indentation included.
C24_ListMarkers ==
    Rendered =>
        \A k \in 1..Len(blocks) :
            blocks[k].kind = "list_item" =>
                LET b == blocks[k]
                    l == BlockLine(b)
                IN  IF CharAt(l, Indent(l)) \in {"-", "*", "+"}
                    THEN b.text = Slice(l, 0, Indent(l)) \o <<Bullet>>
                                  \o Slice(l, Indent(l) + 1, Len(l)) \o <<NL>>
                    ELSE b.text = l \o <<NL>>

\* C26: the blocks of a render partition the lines of the buffer: every
\* line is consumed by exactly one block, the blocks follow each other in
\* the order of the lines, a code block holds its fence lines and what lies
\* between them, and the lines of a run of quote lines are in one block.
C26_BlocksPartitionTheLines ==
    (Rendered /\ raw_content # << >>) =>
        /\ \A i \in LineIndexes : Cardinality(Covering(i)) = 1
        /\ blocks[1].first = 0
        /\ \A k \in 1..(Len(blocks) - 1) : blocks[k + 1].first = blocks[k].next
        /\ \A k \in 1..Len(blocks) :
               blocks[k].kind = "code_block" =>
                   /\ FenceLine(RawLine(blocks[k].first))
                   /\ \A i \in LineIndexes :
                          (blocks[k].first < i /\ i < blocks[k].next - 1) =>
                              ~FenceLine(RawLine(i))
                   /\ blocks[k].next - 1 \in LineIndexes =>
                          FenceLine(RawLine(blocks[k].next - 1))
        /\ \A i \in LineIndexes :
               (i + 1 \in LineIndexes /\ QuoteLine(RawLine(i)) /\ QuoteLine(RawLine(i + 1))
                /\ ~InsideFence(i)) =>
                   Covering(i) = Covering(i + 1)

\* two quote lines in one block
C26_Witness ==
    /\ Rendered
    /\ raw_content = <<">", " ">> \o Bold \o <<NL, ">", " ">> \o Bold
    /\ Len(blocks) = 1
    /\ blocks[1].kind = "blockquote"
    /\ blocks[1].first = 0
    /\ blocks[1].next = 2

----------------------------------------------------------------------------
(* Claims on the inline formatter, checked under SpecInline *)

InlineCodeA == <<Backtick, "a", Backtick>>

\* what may stand next to a construct without touching it
Beside == { << >>, <<"a">>, <<" ">>, InlineCodeA }

\* a bold-italic construct and a link, with the kind and the content of the
\* span they give and a delimiter that formatting removes
Constructs ==
    { [text |-> <<"*", "*", "*", "x", "*", "*", "*">>, type |-> bold_italic_pattern,
       content |-> <<"x">>, delimiter |-> <<"*">>],
      [text |-> <<"[", "a", "]", "(", "b", ")">>, type |-> link_pattern,
       content |-> <<"a">>, delimiter |-> <<"]">>] }

IsFormatted(c) ==
    /\ \E k \in 1..Len(Spans) :
           Spans[k].type = c.type /\ formatted.contents[k] = c.content
    /\ Occurrences(formatted.text, c.delimiter) = {}

\* C25: a construct of a later pass that overlaps no inline-code span of the
\* line is formatted, whether the code span stands before it or after it.
C25_SkippedOnlyOnOverlap ==
    formatted.done =>
        \A c \in Constructs, pre \in Beside, post \in Beside :
            line = pre \o c.text \o post => IsFormatted(c)

----------------------------------------------------------------------------
(* Claims on the host window, checked under SpecGui                        *)

\* C29: after the user toggled the Markdown switch, the widget's own
\* markdown_enabled flag and the GUI's markdown_enabled flag agree, so that
\* the operations that render by the widget's flag (load_content_from_file,
\* insert_markdown_template) and those that render by the GUI's flag
\* (print_out, the streaming append) use the mode selected last.
C29_ModesAgree ==
    last_op = "toggle_markdown_rendering" => markdown_enabled = gui_markdown_enabled

----------------------------------------------------------------------------
(* Claims on the ChatSession, checked under SpecSession                    *)

RECURSIVE SumTokens(_)
SumTokens(messages) ==
    IF messages = << >> THEN 0
    ELSE Head(messages).tokens + SumTokens(Tail(messages))

\* the counters of the session agree with its list; after clear_messages
\* all three are empty or zero; the list get_api_messages returned has one
\* entry for each message, in the same order, of its role and content only
SessionCounted ==
    /\ session.message_count = Len(session.messages)
    /\ session.total_tokens = SumTokens(session.messages)
    /\ last_op = "clear_messages" =>
           /\ session.messages = << >>
           /\ session.message_count = 0
           /\ session.total_tokens = 0
    /\ last_op = "get_api_messages" =>
           /\ Len(last_args) = Len(session.messages)
           /\ \A k \in 1..Len(last_args) :
                  /\ DOMAIN last_args[k] = {"role", "content"}
                  /\ last_args[k].role = session.messages[k].role
                  /\ last_args[k].content = session.messages[k].content

\* add_message puts the message it was given behind those already there
\* and leaves them as they were
InsertedLast ==
    last_op' = "add_message" =>
        /\ Len(session'.messages) = Len(session.messages) + 1
        /\ SubSeq(session'.messages, 1, Len(session.messages)) = session.messages
        /\ session'.messages[Len(session'.messages)].role = last_args'[1]
        /\ session'.messages[Len(session'.messages)].content = last_args'[2]
        /\ session'.messages[Len(session'.messages)].tokens = last_args'[3]

\* C30: after any sequence of add_message and clear_messages, message_count
\* is the number of entries of messages and total_tokens the sum of their
\* tokens; clear_messages resets all three; get_api_messages returns the
\* messages in insertion order with only role and content.
C30_SessionBookkeeping == []SessionCounted /\ [][InsertedLast]_vars

\* two messages with tokens were added and the list for the API was taken
C30_Witness ==
    /\ last_op = "get_api_messages"
    /\ Len(last_args) = 2
    /\ last_args[1].role = "user"
    /\ last_args[2].role = "assistant"
    /\ session.message_count = 2
    /\ session.total_tokens = 4

----------------------------------------------------------------------------
(* Claims on the chat run by ChatHandler, checked under SpecChat and, for  *)
(* what has to happen eventually, under FairSpecChat                       *)

\* the chunks with content among the first n of a stream
ContentChunks(response, n) ==
    SelectSeq(SubSeq(response, 1, n), LAMBDA chunk : chunk # None)

\* the output holds text of request t, then text of another request, then
\* text of t again
Interleaved(t) ==
    \E i, j, k \in 1..Len(origin) :
        /\ i < j
        /\ j < k
        /\ origin[i] = t
        /\ origin[k] = t
        /\ origin[j] \notin {0, t}

\* C27: once stop_streaming was called while a request was in flight, its
\* worker hands over no chunk it reads after the stop, whether the stop
\* came before the worker entered start_streaming or during it; the chunks
\* of two requests are never appended interleaved, and the reply of a
\* stopped request is never added to the session.
C27_StopIsNeverLost ==
    \A t \in 1..Len(workers) :
        /\ workers[t].read_at_stop >= 0 =>
               /\ Len(workers[t].dispatched) <=
                      Len(ContentChunks(workers[t].response, workers[t].read_at_stop))
               /\ ~workers[t].replied
        /\ ~Interleaved(t)

\* request t was started
Started(t) == t <= Len(workers)

\* the _restore_chat_buttons handed over by the worker of request t has run
Restored(t) == t <= Len(workers) /\ workers[t].restored

\* this step is the run of that callback
RestoreRuns(t) == t <= Len(workers) /\ ~workers[t].restored /\ workers'[t].restored

\* C28 as stated: every started request, whether its stream ends normally,
\* by an API error or by a stop, leads to a run of _restore_chat_buttons on
\* the UI thread, after which is_streaming is false, the send control is
\* enabled and the stop control is disabled.
C28_EventuallyReady ==
    /\ \A t \in 1..MaxRequests : Started(t) ~> Restored(t)
    /\ [][\A t \in 1..MaxRequests :
              RestoreRuns(t) => /\ ~is_streaming'
                                /\ send_enabled'
                                /\ ~stop_enabled']_vars

\* C28 amended: every started request leads to a run of
\* _restore_chat_buttons on the UI thread, after which is_streaming is
\* false, the stop control is disabled, and the send control is enabled
\* exactly when the input box holds text.
C28_EventuallyRestored ==
    /\ \A t \in 1..MaxRequests : Started(t) ~> Restored(t)
    /\ [][\A t \in 1..MaxRequests :
              RestoreRuns(t) => /\ ~is_streaming'
                                /\ send_enabled' = (user_input' # << >>)
                                /\ ~stop_enabled']_vars

\* the stream of a request ended normally, its reply is in the session and
\* its _restore_chat_buttons has run with the input box empty
C28_Witness ==
    /\ last_op = "restore_chat_buttons"
    /\ Restored(1)
    /\ workers[1].replied
    /\ workers[1].read_at_stop = -1
    /\ user_input = << >>
    /\ ~is_streaming
    /\ ~send_enabled
    /\ ~stop_enabled

\* an API error ended the request and its _restore_chat_buttons has run
C28_ErrorRestored ==
    /\ Restored(1)
    /\ workers[1].next = 1
    /\ workers[1].read_at_stop = -1
    /\ workers[1].dispatched = << >>

====
